---- MODULE Spec2Model ----
(***************************************************************************)
(* Strautomator core: recipe validation, recipe evaluation (condition      *)
(* matching and action dispatch) and the per-recipe statistics tracker.    *)
(*                                                                         *)
(* Recipes.validate / evaluate / checkCondition / processAction are        *)
(* modelled from recipes/index.ts, RecipeStats from recipes/stats.ts and   *)
(* the enumerations from recipes/types.ts.  The user-deletion cascade is   *)
(* Users.delete of users/index.ts with Recipes.init and onUserDelete, and  *)
(* the location predicate is the one of the earlier Recipes class.         *)
(***************************************************************************)
EXTENDS Integers, Sequences, FiniteSets, TLC

VARIABLES
    recipe,      \* the recipe object: validate's argument, then user.recipes[id]
    error,       \* outcome of validate: "pending", "none" or the error thrown
    given,       \* the activity as it was handed to the last evaluate
    activity,    \* that activity object as evaluate left it
    result,      \* outcome of the last evaluate: "none", "true", "false", "throw"
    checked,     \* conditions handed to checkCondition in the last evaluate, in order
    executed,    \* action types run by processAction in the last evaluate, in order
    outcomes,    \* what each of those processAction calls returned
    stats,       \* the recipe-stats document of the (user, recipe) pair
    last,        \* the last RecipeStats call: its name and arguments
    failStreak,  \* history: failed triggers since the last successful one
    submitted,   \* history: the recipe as it was handed to validate
    thrown,      \* whether the last RecipeStats call threw to its caller
    probe,       \* an activity, a condition and the predicate's verdict on them
    userDocs,    \* ids of the documents of the "users" collection
    collection,  \* the "recipe-stats" collection: <<userId, recipeId>> of each document
    subscribed,  \* whether Recipes.init has registered onUserDelete
    pending,     \* users whose "Users.delete" event is being handled by onUserDelete
    deleted,     \* history: outcome of Users.delete per user: "none", "ok", "failed"
    triggers,    \* history: number of updateStats calls that wrote the stats document
    calls,       \* the overlapping updateStats calls: where each is, and what it read
    writing      \* <<userId, recipeId>> of the updateStats calls that have read and not yet merged

\* The variables of validate, evaluate and the stats document.
recipeVars ==
    <<recipe, error, given, activity, result, checked, executed, outcomes, stats, last,
      failStreak, submitted, thrown>>

\* The variables of the user-deletion cascade.
cascadeVars == <<userDocs, collection, subscribed, pending, deleted>>

\* The variables of the updateStats calls: how many were made, which overlap.
flightVars == <<triggers, calls, writing>>

vars == <<recipeVars, probe, cascadeVars, flightVars>>

----------------------------------------------------------------------------
(* Bounds of the model.                                                    *)

MaxConds == 3        \* conditions of a recipe
MaxActions == 2      \* actions of a recipe
MaxEntries == 2      \* entries of a list handed to validate
MaxTriggers == 4     \* triggers recorded by direct RecipeStats calls
MaxEvaluations == 2  \* triggers recorded through evaluate

----------------------------------------------------------------------------
(* Values.  A JavaScript value is modelled by its kind and its content:    *)
(* "null", "empty" (the empty string), "str", "long" (a string longer than *)
(* the configured maximum), "url" (a string matching the webhook pattern), *)
(* "num" and "bool".                                                       *)

NullV == [kind |-> "null", s |-> "", n |-> 0]
EmptyV == [kind |-> "empty", s |-> "", n |-> 0]
StrV(s) == [kind |-> "str", s |-> s, n |-> 0]
LongV == [kind |-> "long", s |-> "long", n |-> 0]
UrlV == [kind |-> "url", s |-> "https://hook", n |-> 0]
NumV(n) == [kind |-> "num", s |-> "", n |-> n]
BoolV(b) == [kind |-> "bool", s |-> "", n |-> IF b THEN 1 ELSE 0]

isString(v) == v.kind \in {"empty", "str", "long", "url"}
isNaN(v) == v.kind \in {"str", "long", "url"}

\* settings.recipes.maxLength.*: a string is too long exactly when its kind is "long".
tooLong(v) == v.kind = "long"
maxLengthTitle == 2

----------------------------------------------------------------------------
(* recipes/types.ts                                                        *)

RecipeOperator == {"=", "!=", "like", "notlike", "approx", ">", "<"}

RecipeActionType ==
    {"commute", "name", "prependName", "appendName", "generateName",
     "description", "prependDescription", "appendDescription", "gear",
     "hideHome", "hideStatPace", "hideStatSpeed", "hideStatCalories",
     "hideStatHeartRate", "hideStatPower", "sportType", "workoutType",
     "privateNote", "mapStyle", "webhook"}

\* The property catalog (recipes/lists.ts): name, type and legal operators
\* of each property.
recipePropertyList ==
    {[value |-> "distance", type |-> "number", operators |-> {"=", ">", "<"}],
     [value |-> "sportType", type |-> "sportType", operators |-> {"=", "!="}],
     [value |-> "commute", type |-> "boolean", operators |-> {"="}]}

propSpecs(property) == {p \in recipePropertyList : p.value = property}

----------------------------------------------------------------------------
(* Recipes.validate                                                        *)

isEmpty(entry) == entry.empty
filterEmpty(list) == SelectSeq(list, LAMBDA e : ~isEmpty(e))

Min(S) == CHOOSE x \in S : \A y \in S : x <= y

\* The error thrown for one condition, "" when the condition is accepted.
conditionError(condition) ==
    IF condition.property = "" THEN "Missing condition property"
    ELSE IF condition.operator \notin RecipeOperator THEN "Invalid condition operator"
    ELSE IF condition.value.kind \in {"null", "empty"} THEN "Missing condition value"
    ELSE IF isString(condition.value) /\ tooLong(condition.value) THEN "Condition value is too long"
    ELSE IF condition.friendlyLong THEN "Condition friendly value is too long"
    ELSE IF propSpecs(condition.property) = {} THEN "Condition property is not valid"
    ELSE LET spec == CHOOSE p \in propSpecs(condition.property) : TRUE IN
         IF spec.type = "number" /\ isNaN(condition.value) THEN "Condition property must be a valid number"
         ELSE IF spec.type = "boolean"
                 /\ ~(condition.value.kind = "bool"
                      \/ (condition.value.kind = "num" /\ condition.value.n \in {0, 1}))
              THEN "Condition property must be a boolean"
         ELSE IF condition.extraField THEN "Invalid field"
         ELSE ""

\* The error thrown for one action, "" when the action is accepted.
actionError(action) ==
    IF action.type \notin RecipeActionType THEN "Invalid action type"
    ELSE IF action.type # "commute" /\ action.value.kind \in {"null", "empty"} THEN "Missing action value"
    ELSE IF action.type = "webhook" /\ action.value.kind # "url" THEN "Webhook URL is not valid"
    ELSE IF isString(action.value) /\ tooLong(action.value) THEN "Action value is too long"
    ELSE IF action.extraField THEN "Invalid field"
    ELSE ""

\* The error of the first condition that has one, in list order.
firstConditionError(list) ==
    LET bad == {i \in DOMAIN list : conditionError(list[i]) # ""}
    IN  IF bad = {} THEN "none" ELSE conditionError(list[Min(bad)])

\* The error of the first action that has one, in list order.
firstActionError(list) ==
    LET bad == {i \in DOMAIN list : actionError(list[i]) # ""}
    IN  IF bad = {} THEN "none" ELSE actionError(list[Min(bad)])

\* The conditions guard of a non-default recipe.
conditionsMissing(r) == ~r.conditionsIsArray

\* The actions guard.
actionsMissing(r) == ~r.actionsIsArray

\* A validate that keeps the unknown fields of the recipe.
keepUnknown(r) == r

\* The loop over Object.keys(recipe): every key outside the known fields is
\* deleted, the known fields are not touched.
deleteUnknown(r) == [r EXCEPT !.unknownFields = {}]

\* A default recipe that keeps the conditions it came with.
resetOrderOnly(r) == [r EXCEPT !.order = 0]

\* A default recipe gets order 0 and an empty conditions list.
resetDefault(r) == [r EXCEPT !.order = 0, !.conditions = <<>>, !.conditionsIsArray = TRUE]

\* validate(user, recipe): the error thrown ("none" when it returns) and the
\* recipe as validate leaves it, since it edits the recipe in place.
validate(r) ==
    IF r.title = 0 THEN [error |-> "Missing recipe title", recipe |-> r]
    ELSE IF r.title > maxLengthTitle THEN [error |-> "Recipe title is too long", recipe |-> r]
    ELSE IF r.orderNaN THEN [error |-> "Recipe order must be a number", recipe |-> r]
    ELSE IF actionsMissing(r) THEN [error |-> "Missing or invalid recipe actions list", recipe |-> r]
    ELSE
      LET r1 == [r EXCEPT !.actions = filterEmpty(@)]
          r2 == IF r1.conditionsIsArray THEN [r1 EXCEPT !.conditions = filterEmpty(@)] ELSE r1
          r3 == deleteUnknown(r2)
      IN  IF r3.defaultFor # ""
          THEN LET r4 == resetDefault(r3)
               IN  [error |-> firstActionError(r4.actions), recipe |-> r4]
          ELSE IF conditionsMissing(r3) THEN [error |-> "Missing recipe conditions", recipe |-> r3]
          ELSE LET ce == firstConditionError(r3.conditions)
               IN  IF ce # "none" THEN [error |-> ce, recipe |-> r3]
                   ELSE [error |-> firstActionError(r3.actions), recipe |-> r3]

----------------------------------------------------------------------------
(* Recipes.checkCondition and the predicates of recipes/conditions.ts      *)

\* Each predicate returns "true", "false" or "throw".
checkSportType(act, condition) ==
    IF condition.operator = "=" THEN (IF act.sportType = condition.value.s THEN "true" ELSE "false")
    ELSE IF condition.operator = "!=" THEN (IF act.sportType # condition.value.s THEN "true" ELSE "false")
    ELSE "throw"

checkBoolean(act, condition) ==
    IF (act[condition.property] <=> (condition.value.n = 1)) THEN "true" ELSE "false"

checkNumber(act, condition) ==
    IF condition.operator = "=" THEN (IF act[condition.property] = condition.value.n THEN "true" ELSE "false")
    ELSE IF condition.operator = ">" THEN (IF act[condition.property] > condition.value.n THEN "true" ELSE "false")
    ELSE IF condition.operator = "<" THEN (IF act[condition.property] < condition.value.n THEN "true" ELSE "false")
    ELSE "throw"

\* The dispatch of checkCondition on the property, and the predicate's answer.
predicate(act, condition) ==
    IF condition.property = "sportType" THEN checkSportType(act, condition)
    ELSE IF condition.value.kind = "bool" THEN checkBoolean(act, condition)
    ELSE checkNumber(act, condition)

\* A catch that lets a throwing predicate pass as a match.
checkConditionCatchTrue(act, condition) == predicate(act, condition) # "false"

\* checkCondition: the predicate's answer, and the catch that turns a
\* throwing predicate into a non-match.
checkCondition(act, condition) == predicate(act, condition) = "true"

----------------------------------------------------------------------------
(* Recipes.evaluate: matching                                              *)

\* A grouping that only joins neighbours: one group per run of adjacent
\* conditions with the same property.
groupAdjacent(conditions) ==
    LET starts == {i \in DOMAIN conditions :
                     i = 1 \/ conditions[i - 1].property # conditions[i].property}
        nth(k) == CHOOSE i \in starts : Cardinality({j \in starts : j < i}) = k - 1
        stop(k) == IF k = Cardinality(starts) THEN Len(conditions) ELSE nth(k + 1) - 1
    IN  [k \in 1..Cardinality(starts) |-> SubSeq(conditions, nth(k), stop(k))]

\* _.groupBy(recipe.conditions, "property") as Object.entries lists it: one
\* group per property, in the order of each property's first condition, each
\* group holding that property's conditions in list order.
groupBy(conditions) ==
    LET first == {i \in DOMAIN conditions :
                    \A j \in DOMAIN conditions : j < i => conditions[j].property # conditions[i].property}
        nth(k) == CHOOSE i \in first : Cardinality({j \in first : j < i}) = k - 1
    IN  [k \in 1..Cardinality(first) |->
            SelectSeq(conditions, LAMBDA c : c.property = conditions[nth(k)].property)]

\* The seed of a fold: false for OR, true otherwise.
seed(op) == IF op = "OR" THEN FALSE ELSE TRUE

\* One step of the fold over the conditions of a group.
combineSame(samePropertyOp, sameValid, isValid) ==
    IF samePropertyOp = "OR" THEN sameValid \/ isValid ELSE sameValid /\ isValid

\* A fold over the groups that ignores op and always takes the disjunction.
combineAlwaysOr(op, valid, sameValid) == valid \/ sameValid

\* One step of the fold over the groups.
combine(op, valid, sameValid) ==
    IF op = "OR" THEN valid \/ sameValid ELSE valid /\ sameValid

\* A fold that never stops early.
breakNever(op, valid) == FALSE

\* Whether a fold stops after a step.
break(op, valid) == IF op = "OR" THEN valid ELSE ~valid

\* The inner loop from its i-th condition on: the group's value and the
\* conditions checked, in order.
RECURSIVE evalSame(_, _, _, _, _, _)
evalSame(act, samePropertyOp, conditions, i, sameValid, seen) ==
    IF i > Len(conditions) THEN [valid |-> sameValid, checked |-> seen]
    ELSE LET v == combineSame(samePropertyOp, sameValid, checkCondition(act, conditions[i]))
             c == Append(seen, conditions[i])
         IN  IF break(samePropertyOp, v) THEN [valid |-> v, checked |-> c]
             ELSE evalSame(act, samePropertyOp, conditions, i + 1, v, c)

\* The outer loop from its g-th group on.
RECURSIVE evalGroups(_, _, _, _, _, _)
evalGroups(act, r, groups, g, valid, seen) ==
    IF g > Len(groups) THEN [valid |-> valid, checked |-> seen]
    ELSE LET same == evalSame(act, r.samePropertyOp, groups[g], 1, seed(r.samePropertyOp), seen)
             v == combine(r.op, valid, same.valid)
         IN  IF break(r.op, v) THEN [valid |-> v, checked |-> same.checked]
             ELSE evalGroups(act, r, groups, g + 1, v, same.checked)

\* The default logical operators evaluate writes into the recipe.
setDefaultOps(r) ==
    LET r1 == IF r.op = "" THEN [r EXCEPT !.op = "AND"] ELSE r
    IN  IF r1.samePropertyOp = "" THEN [r1 EXCEPT !.samePropertyOp = r1.op] ELSE r1

\* A match decision that walks the conditions of every recipe, default or not.
matchesConditions(act, r) ==
    LET e == evalGroups(act, r, groupBy(r.conditions), 1, seed(r.op), <<>>)
    IN  [match |-> IF e.valid THEN "true"
                   ELSE IF e.checked = <<>> THEN "throw" ELSE "false",
         checked |-> e.checked]

\* The match decision of evaluate for an enabled recipe whose default
\* operators are set: "true", "false", or "throw" when the failure log reads
\* the property of a condition although none was checked.
matches(act, r) ==
    IF r.defaultFor # ""
    THEN [match |-> IF act.sportType # r.defaultFor THEN "false" ELSE "true", checked |-> <<>>]
    ELSE LET e == evalGroups(act, r, groupBy(r.conditions), 1, seed(r.op), <<>>)
         IN  [match |-> IF e.valid THEN "true"
                        ELSE IF e.checked = <<>> THEN "throw" ELSE "false",
              checked |-> e.checked]

----------------------------------------------------------------------------
(* Recipes.evaluate: actions                                               *)

\* The UTF-16 code units of each RecipeActionType value: what the string
\* comparison of _.sortBy works on.
typeCodes(type) ==
    IF type = "commute" THEN <<99, 111, 109, 109, 117, 116, 101>> ELSE
    IF type = "name" THEN <<110, 97, 109, 101>> ELSE
    IF type = "prependName" THEN <<112, 114, 101, 112, 101, 110, 100, 78, 97, 109, 101>> ELSE
    IF type = "appendName" THEN <<97, 112, 112, 101, 110, 100, 78, 97, 109, 101>> ELSE
    IF type = "generateName" THEN <<103, 101, 110, 101, 114, 97, 116, 101, 78, 97, 109, 101>> ELSE
    IF type = "description" THEN <<100, 101, 115, 99, 114, 105, 112, 116, 105, 111, 110>> ELSE
    IF type = "prependDescription" THEN <<112, 114, 101, 112, 101, 110, 100, 68, 101, 115, 99, 114, 105, 112, 116, 105, 111, 110>> ELSE
    IF type = "appendDescription" THEN <<97, 112, 112, 101, 110, 100, 68, 101, 115, 99, 114, 105, 112, 116, 105, 111, 110>> ELSE
    IF type = "gear" THEN <<103, 101, 97, 114>> ELSE
    IF type = "hideHome" THEN <<104, 105, 100, 101, 72, 111, 109, 101>> ELSE
    IF type = "hideStatPace" THEN <<104, 105, 100, 101, 83, 116, 97, 116, 80, 97, 99, 101>> ELSE
    IF type = "hideStatSpeed" THEN <<104, 105, 100, 101, 83, 116, 97, 116, 83, 112, 101, 101, 100>> ELSE
    IF type = "hideStatCalories" THEN <<104, 105, 100, 101, 83, 116, 97, 116, 67, 97, 108, 111, 114, 105, 101, 115>> ELSE
    IF type = "hideStatHeartRate" THEN <<104, 105, 100, 101, 83, 116, 97, 116, 72, 101, 97, 114, 116, 82, 97, 116, 101>> ELSE
    IF type = "hideStatPower" THEN <<104, 105, 100, 101, 83, 116, 97, 116, 80, 111, 119, 101, 114>> ELSE
    IF type = "sportType" THEN <<115, 112, 111, 114, 116, 84, 121, 112, 101>> ELSE
    IF type = "workoutType" THEN <<119, 111, 114, 107, 111, 117, 116, 84, 121, 112, 101>> ELSE
    IF type = "privateNote" THEN <<112, 114, 105, 118, 97, 116, 101, 78, 111, 116, 101>> ELSE
    IF type = "mapStyle" THEN <<109, 97, 112, 83, 116, 121, 108, 101>> ELSE
    <<119, 101, 98, 104, 111, 111, 107>>

\* a < b for two strings, compared code unit by code unit.
stringLess(a, b) ==
    \E i \in 1..(Len(b)) :
        /\ \A j \in 1..(i - 1) : j <= Len(a) /\ a[j] = b[j]
        /\ (i > Len(a) \/ (i <= Len(a) /\ a[i] < b[i]))

\* _.sortBy(recipe.actions, ["type"]): ascending by type, stable.
sortBy(actions) ==
    LET n == Len(actions)
        before(j, i) == \/ stringLess(typeCodes(actions[j].type), typeCodes(actions[i].type))
                        \/ (actions[j].type = actions[i].type /\ j < i)
        pos(i) == Cardinality({j \in 1..n : before(j, i)}) + 1
    IN  [p \in 1..n |-> actions[CHOOSE i \in 1..n : pos(i) = p]]

\* The handler processAction picks for an action type.
handlerOf(type) ==
    IF type \in {"commute", "hideHome", "hideStatPace", "hideStatSpeed", "hideStatCalories",
                 "hideStatHeartRate", "hideStatPower"} THEN "booleanAction"
    ELSE IF type = "gear" THEN "gearAction"
    ELSE IF type = "sportType" THEN "sportTypeAction"
    ELSE IF type = "workoutType" THEN "workoutTypeAction"
    ELSE IF type = "mapStyle" THEN "mapStyleAction"
    ELSE IF type = "webhook" THEN "webhookAction"
    ELSE "defaultAction"

\* What a handler of recipes/actions.ts does to the activity when it
\* succeeds: it sets the field of the action and lists it in updatedFields.
applyHandler(handler, act, action) ==
    IF handler = "booleanAction" /\ action.type = "commute"
    THEN [act EXCEPT !.commute = TRUE, !.updatedFields = Append(@, "commute")]
    ELSE IF handler = "sportTypeAction"
    THEN [act EXCEPT !.sportType = action.value.s, !.updatedFields = Append(@, "sportType")]
    ELSE IF handler = "webhookAction" THEN act
    ELSE [act EXCEPT !.updatedFields = Append(@, action.type)]

\* processAction on the activity; ok is what the handler returns.
processAction(act, action, ok) ==
    IF ok THEN applyHandler(handlerOf(action.type), act, action) ELSE act

\* Whether the loop calls processAction for the next action, given the
\* success value so far: success = success && (await processAction(...)).
callsNext(success) == success

\* The action loop from the i-th sorted action on.  oks[i] is what the i-th
\* call of processAction returns when it is made.
RECURSIVE runActions(_, _, _, _)
runActions(sorted, oks, i, st) ==
    IF i > Len(sorted) THEN st
    ELSE IF callsNext(st.success)
         THEN runActions(sorted, oks, i + 1,
                [activity |-> processAction(st.activity, sorted[i], oks[i]),
                 executed |-> Append(st.executed, sorted[i].type),
                 outcomes |-> Append(st.outcomes, oks[i]),
                 success  |-> st.success /\ oks[i]])
         ELSE runActions(sorted, oks, i + 1, st)

----------------------------------------------------------------------------
(* RecipeStats                                                             *)

maxActivityIds == 2

\* An optional number is <<>> when the field is absent and <<n>> otherwise.
falsy(opt) == opt = <<>> \/ opt[1] = 0
num(opt) == IF opt = <<>> THEN 0 ELSE opt[1]

NoStats ==
    [exists |-> FALSE, activities |-> <<>>, activityCount |-> <<>>, counter |-> <<>>,
     recentFailures |-> <<>>, dateLastTrigger |-> "absent", archived |-> FALSE]

includes(list, x) == \E i \in DOMAIN list : list[i] = x

\* activities after the id of the triggering activity is added to a stored list.
pushActivity(activities, id) ==
    IF ~includes(activities, id) THEN Append(activities, id) ELSE activities

\* A removal that never happens: the cap is forgotten.
capNever(activities) == activities

\* activities after the removal of ids beyond the cap.
capActivities(activities) ==
    IF Len(activities) > maxActivityIds THEN Tail(activities) ELSE activities

\* The activity count before the increment.
baseActivityCount(s, activities) ==
    IF falsy(s.activityCount) THEN Len(activities) ELSE s.activityCount[1]

\* A counter that restarts from 0 at every trigger.
baseCounterReset(s) == 0

\* The counter before the increment.
baseCounter(s) == IF falsy(s.counter) THEN 0 ELSE s.counter[1]

\* A failure count that a success does not reset.
nextFailuresKept(s, success) ==
    IF success THEN (IF s.recentFailures = <<>> THEN 0 ELSE s.recentFailures[1])
    ELSE (IF s.recentFailures = <<>> THEN 1 ELSE s.recentFailures[1] + 1)

\* recentFailures after a trigger.
nextFailures(s, success) ==
    IF success THEN 0 ELSE (IF ~falsy(s.recentFailures) THEN s.recentFailures[1] + 1 ELSE 1)

\* The document updateStats merges into the database.
updateStats(s, activityId, success) ==
    LET st == IF ~s.exists
              THEN [NoStats EXCEPT !.exists = TRUE, !.activities = <<activityId>>,
                                   !.activityCount = <<0>>, !.counter = <<0>>]
              ELSE LET pushed == pushActivity(s.activities, activityId)
                   IN  [s EXCEPT !.activities = capActivities(pushed),
                                 !.activityCount = <<baseActivityCount(s, pushed)>>,
                                 !.counter = <<baseCounter(s)>>]
    IN  [st EXCEPT !.dateLastTrigger = "now",
                   !.activityCount = <<st.activityCount[1] + 1>>,
                   !.counter = <<st.counter[1] + 1>>,
                   !.recentFailures = <<nextFailures(st, success)>>]

\* The id updateStats drops from the list (removedId), 0 when it drops none.
removedId(s, activityId) ==
    IF s.exists /\ Len(pushActivity(s.activities, activityId)) > maxActivityIds
    THEN Head(pushActivity(s.activities, activityId))
    ELSE 0

\* A setCounter that always starts a new document.
setCounterFresh(s, counter) ==
    [NoStats EXCEPT !.exists = TRUE, !.dateLastTrigger = "null", !.counter = <<counter>>]

\* The document setCounter merges into the database.
setCounter(s, counter) ==
    IF ~s.exists
    THEN [NoStats EXCEPT !.exists = TRUE, !.dateLastTrigger = "null", !.counter = <<counter>>]
    ELSE [s EXCEPT !.counter = <<counter>>]

\* An archiveStats that writes the archived flag whether or not stats exist.
archiveAlways(s) == [s EXCEPT !.exists = TRUE, !.archived = TRUE]

\* The document archiveStats leaves in the database.
archiveStats(s) ==
    IF ~s.exists THEN s ELSE [s EXCEPT !.archived = TRUE]

\* getStats(user, recipe) on the stored document: activityCount is filled in
\* from the length of activities, and counter with 0, when they are falsy.
getStats(s) ==
    [s EXCEPT !.activityCount = IF falsy(@) THEN <<Len(s.activities)>> ELSE @,
              !.counter = IF falsy(@) THEN <<0>> ELSE @]

\* The entry of getStats(user) for the stored document: activityCount is
\* always set to the length of activities.
getStatsEntry(s) == [s EXCEPT !.activityCount = <<Len(s.activities)>>]

\* The document deleteStats leaves in the database: none.
deleteStats(s) == NoStats

\* What the persistence layer does during a call: it works ("none"), the
\* read of the document fails, or the write (merge, delete) fails.
Faults == {"none", "read", "write"}

\* A catch block that logs and throws the error again.
rethrown(s) == [stats |-> s, thrown |-> TRUE]

\* The catch block of updateStats, archiveStats and deleteStats: the error
\* is logged, the call returns, and the stored document is what it was.
caught(s) == [stats |-> s, thrown |-> FALSE]

\* updateStats with its try/catch: doc.get() and database.merge may fail.
updateStatsTry(s, activityId, success, fault) ==
    IF fault # "none" THEN caught(s)
    ELSE [stats |-> updateStats(s, activityId, success), thrown |-> FALSE]

\* archiveStats with its try/catch: without a document nothing is written.
archiveStatsTry(s, fault) ==
    IF fault = "read" THEN caught(s)
    ELSE IF ~s.exists THEN [stats |-> s, thrown |-> FALSE]
    ELSE IF fault = "write" THEN caught(s)
    ELSE [stats |-> archiveStats(s), thrown |-> FALSE]

\* deleteStats with its try/catch: it only calls database.delete.
deleteStatsTry(s, fault) ==
    IF fault = "write" THEN caught(s)
    ELSE [stats |-> deleteStats(s), thrown |-> FALSE]

----------------------------------------------------------------------------
(* Recipes.evaluate                                                        *)

\* A disabled flag that evaluate never sees.
isDisabledNever(r) == FALSE

\* Whether evaluate stops at the disabled flag of the recipe.
isDisabled(r) == r.disabled

\* A stats update that is skipped when an action failed.
recordOnSuccess(s, activityId, success) ==
    IF success THEN updateStats(s, activityId, success) ELSE s

\* The stats document after the call of updateStats that ends evaluate.
recordTrigger(s, activityId, success) == updateStats(s, activityId, success)

\* evaluate(user, id, activity) for the stored recipe r: what it returns, and
\* the recipe, the activity and the stats document as it leaves them.
evaluate(r, act, s, oks) ==
    LET none == [recipe |-> r, activity |-> act, stats |-> s, executed |-> <<>>,
                 outcomes |-> <<>>, checked |-> <<>>, result |-> "false"]
    IN
    IF isDisabled(r) THEN none
    ELSE LET r1 == setDefaultOps(r)
             m == matches(act, r1)
         IN  IF m.match # "true"
             THEN [none EXCEPT !.recipe = r1, !.checked = m.checked, !.result = m.match]
             ELSE LET run == runActions(sortBy(r1.actions), oks, 1,
                                [activity |-> act, executed |-> <<>>, outcomes |-> <<>>,
                                 success |-> TRUE])
                  IN  [recipe |-> r1, activity |-> run.activity,
                       stats |-> recordTrigger(s, act.id, run.success),
                       executed |-> run.executed, outcomes |-> run.outcomes,
                       checked |-> m.checked, result |-> "true"]

\* evaluate over a persistence layer that may fail: the stats document is
\* what updateStats left, and evaluate throws if updateStats threw.
evaluateTry(r, act, s, oks, fault) ==
    LET e == evaluate(r, act, s, oks)
        u == updateStatsTry(s, act.id, \A i \in DOMAIN e.outcomes : e.outcomes[i], fault)
    IN  IF e.result # "true" THEN e
        ELSE [e EXCEPT !.stats = u.stats,
                       !.result = IF u.thrown THEN "throw" ELSE "true"]

----------------------------------------------------------------------------
(* The predicates of the earlier Recipes class, which it defines itself.   *)
(* Coordinates are counted in units of 0.00001 degree; a number that       *)
(* parseFloat cannot read (NaN) is <<>>, any other number n is <<n>>.      *)

radiusEqual == 37    \* 0.00037
radiusLike == 458    \* 0.00458

\* a < b on JavaScript numbers: false as soon as one of them is NaN.
lessThan(a, b) == a # <<>> /\ b # <<>> /\ a[1] < b[1]

\* a + n, NaN when a is NaN.
plus(a, n) == IF a = <<>> THEN <<>> ELSE <<a[1] + n>>

\* condition.value.toString().split(","), then parseFloat of field i: the
\* value is held as its list of fields, a field missing from it gives NaN.
parseField(value, i) == IF i \in DOMAIN value THEN value[i] ELSE <<>>

\* checkLocation(activity, condition): "true", "false", or "throw" for an
\* operator other than Equal and Like.  Both coordinates of the activity
\* are read from index 0 of activity[prop].
checkLocation(act, condition) ==
    LET cLat == parseField(condition.value, 1)
        cLong == parseField(condition.value, 2)
        activityLat == <<act[condition.property][1]>>
        activityLong == <<act[condition.property][1]>>
    IN  IF condition.operator \notin {"=", "like"} THEN "throw"
        ELSE LET radius == IF condition.operator = "=" THEN radiusEqual ELSE radiusLike
             IN  IF /\ lessThan(activityLat, plus(cLat, radius))
                    /\ lessThan(plus(cLat, 0 - radius), activityLat)
                    /\ lessThan(activityLong, plus(cLong, radius))
                    /\ lessThan(plus(cLong, 0 - radius), activityLong)
                 THEN "true" ELSE "false"

toleranceLike == 20   \* Hmm units
toleranceEqual == 1

\* a <= b on JavaScript numbers: false as soon as one of them is NaN.
lessEq(a, b) == a # <<>> /\ b # <<>> /\ a[1] <= b[1]

\* parseFloat(moment(date).format("Hmm")): the hour without padding followed
\* by the two digits of the minute, read as one number.  A date is held as
\* <<hour, minute>>.
formatHmm(date) == <<date[1] * 100 + date[2]>>

\* checkTimestamp(activity, condition): the parsed condition value is
\* compared with the time of the activity.
checkTimestamp(act, condition) ==
    LET value == parseField(condition.value, 1)
        aTime == formatHmm(act[condition.property])
    IN  IF condition.operator = ">" THEN (IF lessThan(aTime, value) THEN "true" ELSE "false")
        ELSE IF condition.operator = "<" THEN (IF lessThan(value, aTime) THEN "true" ELSE "false")
        ELSE IF condition.operator = "like"
             THEN (IF lessEq(plus(aTime, 0 - toleranceLike), value)
                      /\ lessEq(value, plus(aTime, toleranceLike)) THEN "true" ELSE "false")
        ELSE IF condition.operator = "="
             THEN (IF lessEq(plus(aTime, 0 - toleranceEqual), value)
                      /\ lessEq(value, plus(aTime, toleranceEqual)) THEN "true" ELSE "false")
        ELSE "throw"

\* checkNumber(activity, condition) of the earlier class: false when the
\* comparison of the operator fails; in every other case, the one where the
\* comparison holds included, the chain ends in its last else and throws.
checkNumberEarlier(act, condition) ==
    LET value == condition.value[1]
        aNumber == act[condition.property]
    IN  IF condition.operator = "=" /\ aNumber # value THEN "false"
        ELSE IF condition.operator = ">" /\ aNumber <= value THEN "false"
        ELSE IF condition.operator = "<" /\ aNumber >= value THEN "false"
        ELSE "throw"

\* toLowerCase of a string, held as the sequence of its character codes:
\* the codes of A to Z move to those of a to z.
toLowerCase(text) ==
    [i \in DOMAIN text |-> IF text[i] \in 65..90 THEN text[i] + 32 ELSE text[i]]

\* text.indexOf(value), -1 when value does not occur in text.
indexOf(text, value) ==
    LET at == {k \in 0..(Len(text) - Len(value)) : SubSeq(text, k + 1, k + Len(value)) = value}
    IN  IF at = {} THEN 0 - 1 ELSE Min(at)

\* checkText(activity, condition) of the earlier class: false when the
\* comparison fails, a throw in every other case.
checkTextEarlier(act, condition) ==
    LET value == toLowerCase(condition.value)
        aText == toLowerCase(act[condition.property])
    IN  IF condition.operator = "=" /\ aText # value THEN "false"
        ELSE IF condition.operator = "like" /\ indexOf(aText, value) < 0 THEN "false"
        ELSE "throw"

\* The dispatch of the earlier evaluate on the name of the property and on
\* the type of the activity's value.
checkEarlier(act, condition) ==
    IF condition.property = "location_start" THEN checkLocation(act, condition)
    ELSE IF condition.property = "start_date" THEN checkTimestamp(act, condition)
    ELSE IF condition.property = "distance" THEN checkNumberEarlier(act, condition)
    ELSE checkTextEarlier(act, condition)

\* The step of the earlier evaluate for one condition: the recipe goes on
\* only if the predicate returned true; a throw is caught and ends it.
conditionHolds(verdict) == verdict = "true"

\* processAction of the earlier class for the commute action.
processActionEarlier(act, action) ==
    IF action.type = "commute" THEN [act EXCEPT !.commute = TRUE] ELSE act

RECURSIVE runActionsEarlier(_, _, _)
runActionsEarlier(act, actions, i) ==
    IF i > Len(actions) THEN act
    ELSE runActionsEarlier(processActionEarlier(act, actions[i]), actions, i + 1)

\* evaluate of the earlier class: false at the first condition whose
\* predicate does not return true, otherwise the actions run in list order
\* and the result is true.
evaluateEarlier(r, act) ==
    IF \E i \in DOMAIN r.conditions : ~conditionHolds(checkEarlier(act, r.conditions[i]))
    THEN [result |-> "false", activity |-> act, executed |-> <<>>]
    ELSE [result |-> "true", activity |-> runActionsEarlier(act, r.actions, 1),
          executed |-> [i \in DOMAIN r.actions |-> r.actions[i].type]]

----------------------------------------------------------------------------
(* Users.delete and Recipes.onUserDelete                                   *)

\* A handler that deletes the stats of every user.
onUserDeleteAll(docs, userId) == {}

\* onUserDelete: database.delete("recipe-stats", ["userId", "==", user.id]).
onUserDelete(docs, userId) == {d \in docs : d[1] # userId}

\* Users.delete: the user document is deleted, then the event is emitted;
\* when the delete fails the error is thrown again and nothing is emitted.
usersDelete(docs, userId, ok) ==
    [userDocs |-> IF ok THEN docs \ {userId} ELSE docs, emitted |-> ok, thrown |-> ~ok]

\* eventManager.emit("Users.delete", user): the registered listener is called.
emit(listening, handling, userId) == IF listening THEN handling \cup {userId} ELSE handling

----------------------------------------------------------------------------
(* Inputs                                                                  *)

\* Sequences over S of length at most n.
SeqUpTo(S, n) == UNION {[1..k -> S] : k \in 0..n}

Condition(property, operator, value) ==
    [empty |-> FALSE, property |-> property, operator |-> operator, value |-> value,
     friendlyLong |-> FALSE, extraField |-> FALSE]

Action(type, value) ==
    [empty |-> FALSE, type |-> type, value |-> value, extraField |-> FALSE]

\* An empty entry of a list ({} or null).
EmptyCondition == [Condition("", "", NullV) EXCEPT !.empty = TRUE]
EmptyAction == [Action("", NullV) EXCEPT !.empty = TRUE]

\* Conditions of evaluated recipes: two on distance, one on the sport type.
EvalConditions ==
    {Condition("distance", ">", NumV(10)),
     Condition("distance", "<", NumV(20)),
     Condition("sportType", "=", StrV("Ride"))}

\* Conditions of evaluated recipes one of which names an operator that its
\* predicate does not know.
ThrowConditions ==
    {Condition("distance", "like", NumV(10)),
     Condition("distance", ">", NumV(10)),
     Condition("sportType", "=", StrV("Ride"))}

\* Actions of evaluated recipes.
EvalActions ==
    {Action("commute", NullV), Action("name", StrV("n")), Action("sportType", StrV("Run")),
     Action("webhook", UrlV), Action("workoutType", NumV(1))}

\* Entries of the lists handed to validate.
RawConditions ==
    {EmptyCondition,
     Condition("sportType", "=", StrV("Ride")),
     Condition("distance", ">", StrV("far")),
     Condition("distance", "like", NumV(10)),
     Condition("speed", "=", NumV(1))}

RawActions ==
    {EmptyAction, Action("commute", NullV), Action("name", EmptyV), Action("webhook", StrV("x"))}

Recipe(title, conditions, actions, op, samePropertyOp, defaultFor) ==
    [title |-> title, order |-> 1, orderNaN |-> FALSE,
     conditionsIsArray |-> TRUE, conditions |-> conditions,
     actionsIsArray |-> TRUE, actions |-> actions,
     op |-> op, samePropertyOp |-> samePropertyOp, defaultFor |-> defaultFor,
     killSwitch |-> FALSE, disabled |-> FALSE, unknownFields |-> {}]

LogicalOps == {"", "AND", "OR"}

\* What callers hand to validate: every pair of lists in an otherwise
\* well-formed recipe, and every malformed shell around well-formed lists.
RawRecipes ==
    {[Recipe(1, c, a, "", "", d) EXCEPT !.unknownFields = u]
        : c \in SeqUpTo(RawConditions, MaxEntries), a \in SeqUpTo(RawActions, MaxEntries),
          d \in {"", "Run"}, u \in {{}, {"foo"}}}
    \cup
    {[Recipe(t, <<Condition("sportType", "=", StrV("Ride"))>>, <<Action("commute", NullV)>>, "", "", d)
         EXCEPT !.conditionsIsArray = ca, !.actionsIsArray = aa, !.unknownFields = u, !.orderNaN = o]
        : t \in {0, 1, maxLengthTitle + 1}, d \in {"", "Run"}, ca \in BOOLEAN, aa \in BOOLEAN,
          u \in {{}, {"foo"}}, o \in BOOLEAN}

\* What the owner submits for the recipes that get evaluated: any list of
\* conditions under any pair of operators, any list of actions, a default
\* recipe, a disabled one, and lists with a condition that cannot be evaluated.
SubmittedRecipes ==
    {Recipe(1, c, <<Action("commute", NullV)>>, op, sop, "")
        : c \in SeqUpTo(EvalConditions, MaxConds), op \in LogicalOps, sop \in LogicalOps}
    \cup {Recipe(1, <<Condition("sportType", "=", StrV("Ride"))>>, a, "", "", "")
        : a \in SeqUpTo(EvalActions, MaxActions)}
    \cup {[Recipe(1, c, <<Action("commute", NullV)>>, "", "", d) EXCEPT !.disabled = dis]
        : c \in SeqUpTo(EvalConditions, 1), d \in {"", "Run"}, dis \in BOOLEAN}
    \cup {Recipe(1, c, <<Action("commute", NullV)>>, op, sop, "")
        : c \in SeqUpTo(ThrowConditions, MaxEntries), op \in LogicalOps, sop \in LogicalOps}

ActivityIds == 1..(maxActivityIds + 1)

Activities ==
    [id : {1}, sportType : {"Ride", "Run"}, distance : {5, 15, 25}, commute : {FALSE},
     updatedFields : {<<>>}]

CounterValues == {0 - 1, 0, 2}

\* A call of RecipeStats: its name, its arguments, and the id it removed.
Call(op, activityId, success, counter, removed) ==
    [op |-> op, activityId |-> activityId, success |-> success, counter |-> counter,
     removed |-> removed]

NoCall == Call("none", 0, TRUE, 0, 0)

----------------------------------------------------------------------------
(* Specifications                                                          *)

\* The users of the service, and the recipes each of them may own.
Users == {"u1", "u2"}
RecipeIds == {"r1", "r2"}

\* The updateStats calls that may overlap on one stats document.
MaxCalls == 3
CallIds == 1..MaxCalls

\* No updateStats call has started: none has read the document.
NoCalls ==
    [c \in CallIds |-> [pc |-> "idle", read |-> NoStats, activityId |-> 0, success |-> TRUE]]

\* No predicate has been probed.
NoProbe == [called |-> FALSE, activity |-> <<>>, condition |-> <<>>, verdict |-> "none"]

NoActivity ==
    [id |-> 1, sportType |-> "Ride", distance |-> 5, commute |-> FALSE, updatedFields |-> <<>>]

Quiet ==
    /\ given = NoActivity
    /\ activity = NoActivity
    /\ result = "none"
    /\ checked = <<>>
    /\ executed = <<>>
    /\ outcomes = <<>>
    /\ stats = NoStats
    /\ last = NoCall
    /\ failStreak = 0
    /\ thrown = FALSE
    /\ probe = NoProbe
    /\ userDocs = Users
    /\ collection = {}
    /\ subscribed = FALSE
    /\ pending = {}
    /\ deleted = [u \in Users |-> "none"]
    /\ triggers = 0
    /\ calls = NoCalls
    /\ writing = {}

\* validate is about to be called on a recipe.
InitValidate ==
    /\ recipe \in RawRecipes
    /\ submitted = recipe
    /\ error = "pending"
    /\ Quiet

\* The owner submits a recipe; no stats document exists yet.
Init ==
    /\ recipe \in SubmittedRecipes
    /\ submitted = recipe
    /\ error = "pending"
    /\ Quiet

InitStats ==
    /\ recipe = validate(Recipe(1, <<Condition("sportType", "=", StrV("Ride"))>>,
                                <<Action("commute", NullV)>>, "", "", "")).recipe
    /\ submitted = recipe
    /\ error = "none"
    /\ Quiet

\* validate(user, recipe)
Validate ==
    /\ error = "pending"
    /\ recipe' = validate(recipe).recipe
    /\ error' = validate(recipe).error
    /\ UNCHANGED <<given, activity, result, checked, executed, outcomes, stats, last, failStreak>>
    /\ UNCHANGED <<submitted, thrown, probe, cascadeVars>>
    /\ UNCHANGED flightVars

\* evaluate(user, id, activity), on the recipe that validate let through and
\* that was stored as user.recipes[id].
Evaluate ==
    /\ error = "none"
    /\ num(stats.activityCount) < MaxEvaluations
    /\ \E act \in Activities, oks \in [1..Len(recipe.actions) -> BOOLEAN] :
         \E e \in {evaluate(recipe, act, stats, oks)} :
         LET success == \A i \in DOMAIN e.outcomes : e.outcomes[i]
         IN  /\ recipe' = e.recipe
             /\ given' = act
             /\ activity' = e.activity
             /\ result' = e.result
             /\ checked' = e.checked
             /\ executed' = e.executed
             /\ outcomes' = e.outcomes
             /\ stats' = e.stats
             /\ last' = IF e.result = "true"
                        THEN Call("updateStats", act.id, success, 0, removedId(stats, act.id))
                        ELSE NoCall
             /\ failStreak' = IF e.result # "true" THEN failStreak
                              ELSE IF success THEN 0 ELSE failStreak + 1
    /\ UNCHANGED <<error, submitted, thrown, probe, cascadeVars>>
    /\ triggers' = IF result' = "true" THEN triggers + 1 ELSE triggers
    /\ UNCHANGED <<calls, writing>>

\* recipeStats.updateStats(user, recipe, activity, success)
UpdateStats ==
    /\ num(stats.activityCount) < MaxTriggers
    /\ \E id \in ActivityIds, success \in BOOLEAN :
         /\ stats' = updateStats(stats, id, success)
         /\ last' = Call("updateStats", id, success, 0, removedId(stats, id))
         /\ failStreak' = IF success THEN 0 ELSE failStreak + 1
    /\ UNCHANGED <<recipe, error, given, activity, result, checked, executed, outcomes>>
    /\ UNCHANGED <<submitted, thrown, probe, cascadeVars>>
    /\ triggers' = triggers + 1
    /\ UNCHANGED <<calls, writing>>

\* recipeStats.setCounter(user, recipe, counter)
SetCounter ==
    /\ \E counter \in CounterValues :
         /\ stats' = setCounter(stats, counter)
         /\ last' = Call("setCounter", 0, TRUE, counter, 0)
    /\ UNCHANGED <<recipe, error, given, activity, result, checked, executed, outcomes, failStreak>>
    /\ UNCHANGED <<submitted, thrown, probe, cascadeVars>>
    /\ UNCHANGED flightVars

\* recipeStats.archiveStats(user, recipe)
ArchiveStats ==
    /\ stats' = archiveStats(stats)
    /\ last' = Call("archiveStats", 0, TRUE, 0, 0)
    /\ UNCHANGED <<recipe, error, given, activity, result, checked, executed, outcomes, failStreak>>
    /\ UNCHANGED <<submitted, thrown, probe, cascadeVars>>
    /\ UNCHANGED flightVars

\* A recipe is validated, stored, and evaluated against incoming activities.
Next == Validate \/ Evaluate
Spec == Init /\ [][Next]_vars

\* validate on everything a caller may hand it.
NextValidate == Validate
SpecValidate == InitValidate /\ [][NextValidate]_vars

\* The calls of RecipeStats on one (user, recipe) pair, from no document.
NextStats == UpdateStats \/ SetCounter \/ ArchiveStats
SpecStats == InitStats /\ [][NextStats]_vars

\* Activities with a start location, and location conditions: around the
\* point 0,0 and next to it, with a value that lacks its longitude, under
\* the two operators of locations and one that is none of theirs.
LocationActivities ==
    {[id |-> 1, location_start |-> <<lat, lon>>]
        : lat \in {0 - 37, 0, 36, 37, 457, 458}, lon \in {0 - 37, 0, 36, 37, 457, 458}}

LocationConditions ==
    {[property |-> "location_start", operator |-> op, value |-> v]
        : op \in {"=", "like", ">"},
          v \in {<< <<lat>>, <<lon>> >> : lat \in {0, 1}, lon \in {0, 1}} \cup {<< <<0>> >>}}

\* Activities with a start time around 8:00, and time conditions on 8:00,
\* on 8:20 and on a value that is no number, under every operator of
\* timestamps and one that is none of theirs.
TimeActivities ==
    {[id |-> 1, start_date |-> <<h, mi>>] : h \in {7, 8}, mi \in {0, 1, 2, 20, 21, 59}}

TimeConditions ==
    {[property |-> "start_date", operator |-> op, value |-> << v >>]
        : op \in {">", "<", "like", "=", "!="}, v \in {<<800>>, <<820>>, <<>>}}

\* Activities with a distance in metres, and conditions on 10000 m.
NumberActivities == {[id |-> 1, distance |-> d] : d \in {5000, 10000, 15000}}

NumberConditions ==
    {[property |-> "distance", operator |-> op, value |-> <<10000>>]
        : op \in {"=", ">", "<", "like"}}

\* Activities with a sport type, "Ride" or "Run", and conditions on it with
\* the values "Ride", "RIDE" and "id".
TextActivities ==
    {[id |-> 1, sportType |-> t] : t \in {<<82, 105, 100, 101>>, <<82, 117, 110>>}}

TextConditions ==
    {[property |-> "sportType", operator |-> op, value |-> v]
        : op \in {"=", "like", ">"},
          v \in {<<82, 105, 100, 101>>, <<82, 73, 68, 69>>, <<105, 100>>}}

\* The calls of a predicate: an activity, a condition, no verdict yet.
Probes(activities, conditions) ==
    [called : {TRUE}, activity : activities, condition : conditions, verdict : {"none"}]

\* Recipes of the earlier class: conditions on the distance and on the sport
\* type, and the commute action.
EarlierConditions ==
    {[property |-> "distance", operator |-> ">", value |-> <<10000>>],
     [property |-> "distance", operator |-> "<", value |-> <<10000>>],
     [property |-> "sportType", operator |-> "=", value |-> <<82, 105, 100, 101>>]}

EarlierRecipes ==
    {[title |-> 1, conditions |-> c, actions |-> <<[type |-> "commute", value |-> TRUE]>>]
        : c \in SeqUpTo(EarlierConditions, MaxEntries)}

EarlierActivities ==
    [id : {1}, distance : {5000, 15000}, sportType : {<<82, 105, 100, 101>>, <<82, 117, 110>>},
     commute : {FALSE}]

\* A predicate of the earlier class is about to be called.
InitConditions ==
    /\ \/ /\ \/ probe \in Probes(LocationActivities, LocationConditions)
             \/ probe \in Probes(TimeActivities, TimeConditions)
             \/ probe \in Probes(NumberActivities, NumberConditions)
             \/ probe \in Probes(TextActivities, TextConditions)
          /\ recipe = [title |-> 1, conditions |-> <<probe.condition>>,
                       actions |-> <<[type |-> "commute", value |-> TRUE]>>]
       \/ /\ probe = NoProbe
          /\ recipe \in EarlierRecipes
    /\ submitted = recipe
    /\ error = "none"
    /\ given = NoActivity
    /\ activity = NoActivity
    /\ result = "none"
    /\ checked = <<>>
    /\ executed = <<>>
    /\ outcomes = <<>>
    /\ stats = NoStats
    /\ last = NoCall
    /\ failStreak = 0
    /\ thrown = FALSE
    /\ userDocs = Users
    /\ collection = {}
    /\ subscribed = FALSE
    /\ pending = {}
    /\ deleted = [u \in Users |-> "none"]
    /\ triggers = 0
    /\ calls = NoCalls
    /\ writing = {}

\* checkLocation(activity, condition), called by evaluate for a condition
\* whose property name contains "location".
CheckLocation ==
    /\ probe.called
    /\ probe.verdict = "none"
    /\ probe.condition.property = "location_start"
    /\ probe' = [probe EXCEPT !.verdict = checkLocation(probe.activity, probe.condition)]
    /\ UNCHANGED <<recipeVars, cascadeVars>>
    /\ UNCHANGED flightVars

\* checkTimestamp(activity, condition), called by evaluate for a condition
\* whose property name contains "date".
CheckTimestamp ==
    /\ probe.called
    /\ probe.verdict = "none"
    /\ probe.condition.property = "start_date"
    /\ probe' = [probe EXCEPT !.verdict = checkTimestamp(probe.activity, probe.condition)]
    /\ UNCHANGED <<recipeVars, cascadeVars>>
    /\ UNCHANGED flightVars

\* checkNumber(activity, condition), called by evaluate when the activity's
\* value of the property is a number.
CheckNumber ==
    /\ probe.called
    /\ probe.verdict = "none"
    /\ probe.condition.property = "distance"
    /\ probe' = [probe EXCEPT !.verdict = checkNumberEarlier(probe.activity, probe.condition)]
    /\ UNCHANGED <<recipeVars, cascadeVars>>
    /\ UNCHANGED flightVars

\* checkText(activity, condition), called by evaluate in every other case.
CheckText ==
    /\ probe.called
    /\ probe.verdict = "none"
    /\ probe.condition.property = "sportType"
    /\ probe' = [probe EXCEPT !.verdict = checkTextEarlier(probe.activity, probe.condition)]
    /\ UNCHANGED <<recipeVars, cascadeVars>>
    /\ UNCHANGED flightVars

\* evaluate(user, id, activity) of the earlier class.
EvaluateEarlier ==
    /\ ~probe.called
    /\ result = "none"
    /\ \E act \in EarlierActivities :
         \E e \in {evaluateEarlier(recipe, act)} :
         /\ given' = act
         /\ activity' = e.activity
         /\ result' = e.result
         /\ executed' = e.executed
    /\ UNCHANGED <<recipe, error, checked, outcomes, stats, last, failStreak, submitted, thrown>>
    /\ UNCHANGED <<probe, cascadeVars>>
    /\ UNCHANGED flightVars

NextConditions ==
    CheckLocation \/ CheckTimestamp \/ CheckNumber \/ CheckText \/ EvaluateEarlier
SpecConditions == InitConditions /\ [][NextConditions]_vars

\* Two users, no stats document, Recipes.init not called yet.
InitCascade ==
    /\ recipe = validate(Recipe(1, <<Condition("sportType", "=", StrV("Ride"))>>,
                                <<Action("commute", NullV)>>, "", "", "")).recipe
    /\ submitted = recipe
    /\ error = "none"
    /\ Quiet

\* Recipes.init()
RecipesInit ==
    /\ ~subscribed
    /\ subscribed' = TRUE
    /\ UNCHANGED <<recipeVars, probe, userDocs, collection, pending, deleted>>
    /\ UNCHANGED flightVars

\* updateStats stores the stats document of a recipe of an existing user.
StoreStats ==
    /\ \E u \in userDocs, r \in RecipeIds :
         /\ <<u, r>> \notin collection
         /\ collection' = collection \cup {<<u, r>>}
    /\ UNCHANGED <<recipeVars, probe, userDocs, subscribed, pending, deleted>>
    /\ UNCHANGED flightVars

\* Users.delete(user): deleted records how it ended, "ok" when the event was
\* emitted to the listener, "unheard" when nobody listened, "failed" when
\* the delete of the user document failed.
UsersDelete ==
    /\ \E u \in Users, ok \in BOOLEAN :
         /\ deleted[u] \in {"none", "failed"}
         /\ \E d \in {usersDelete(userDocs, u, ok)} :
              /\ userDocs' = d.userDocs
              /\ pending' = IF d.emitted THEN emit(subscribed, pending, u) ELSE pending
              /\ deleted' = [deleted EXCEPT ![u] = IF d.thrown THEN "failed"
                                                   ELSE IF subscribed THEN "ok" ELSE "unheard"]
    /\ UNCHANGED <<recipeVars, probe, collection, subscribed>>
    /\ UNCHANGED flightVars

\* Recipes.onUserDelete(user), called by the event manager.
OnUserDelete(u) ==
    /\ u \in pending
    /\ collection' = onUserDelete(collection, u)
    /\ pending' = pending \ {u}
    /\ UNCHANGED <<recipeVars, probe, userDocs, subscribed, deleted>>
    /\ UNCHANGED flightVars

HandleUserDelete == \E u \in Users : OnUserDelete(u)

\* Users are deleted while stats documents exist; the event manager calls
\* every listener of an emitted event, and the handler runs to its end.
NextCascade == RecipesInit \/ StoreStats \/ UsersDelete \/ HandleUserDelete
SpecCascade ==
    InitCascade /\ [][NextCascade]_vars /\ \A u \in Users : WF_vars(OnUserDelete(u))

\* A call of RecipeStats over a persistence layer that may fail: the call,
\* who made it ("evaluate" or "direct"), and what the persistence layer did.
FaultyCall(call, caller, fault) ==
    [op |-> call.op, activityId |-> call.activityId, success |-> call.success,
     counter |-> call.counter, removed |-> call.removed, caller |-> caller, fault |-> fault]

\* A stored recipe with two actions, no stats document, nothing called yet.
InitFaulty ==
    /\ recipe = validate(Recipe(1, <<Condition("sportType", "=", StrV("Ride"))>>,
                                <<Action("commute", NullV), Action("sportType", StrV("Run"))>>,
                                "", "", "")).recipe
    /\ submitted = recipe
    /\ error = "none"
    /\ given = NoActivity
    /\ activity = NoActivity
    /\ result = "none"
    /\ checked = <<>>
    /\ executed = <<>>
    /\ outcomes = <<>>
    /\ stats = NoStats
    /\ last = FaultyCall(NoCall, "direct", "none")
    /\ failStreak = 0
    /\ thrown = FALSE
    /\ probe = NoProbe
    /\ userDocs = Users
    /\ collection = {}
    /\ subscribed = FALSE
    /\ pending = {}
    /\ deleted = [u \in Users |-> "none"]
    /\ triggers = 0
    /\ calls = NoCalls
    /\ writing = {}

\* evaluate(user, id, activity) while the persistence layer may fail.
EvaluateFaulty ==
    /\ num(stats.activityCount) < MaxEvaluations
    /\ \E act \in Activities, oks \in [1..Len(recipe.actions) -> BOOLEAN], fault \in Faults :
         \E e \in {evaluateTry(recipe, act, stats, oks, fault)} :
         LET success == \A i \in DOMAIN e.outcomes : e.outcomes[i]
         IN  /\ recipe' = e.recipe
             /\ given' = act
             /\ activity' = e.activity
             /\ result' = e.result
             /\ checked' = e.checked
             /\ executed' = e.executed
             /\ outcomes' = e.outcomes
             /\ stats' = e.stats
             /\ thrown' = (e.result = "throw")
             /\ last' = IF e.result = "false"
                        THEN FaultyCall(NoCall, "evaluate", "none")
                        ELSE FaultyCall(Call("updateStats", act.id, success, 0, 0),
                                        "evaluate", fault)
             /\ failStreak' = IF e.stats = stats THEN failStreak
                              ELSE IF success THEN 0 ELSE failStreak + 1
    /\ UNCHANGED <<error, submitted, probe, cascadeVars>>
    /\ UNCHANGED flightVars

\* recipeStats.updateStats while the persistence layer may fail.
UpdateStatsFaulty ==
    /\ num(stats.activityCount) < MaxEvaluations
    /\ \E id \in ActivityIds, success \in BOOLEAN, fault \in Faults :
         \E u \in {updateStatsTry(stats, id, success, fault)} :
         /\ stats' = u.stats
         /\ thrown' = u.thrown
         /\ last' = FaultyCall(Call("updateStats", id, success, 0, 0), "direct", fault)
         /\ failStreak' = IF fault # "none" THEN failStreak
                          ELSE IF success THEN 0 ELSE failStreak + 1
    /\ UNCHANGED <<recipe, error, given, activity, result, checked, executed, outcomes>>
    /\ UNCHANGED <<submitted, probe, cascadeVars>>
    /\ UNCHANGED flightVars

\* recipeStats.archiveStats while the persistence layer may fail.
ArchiveStatsFaulty ==
    /\ \E fault \in Faults :
         \E u \in {archiveStatsTry(stats, fault)} :
         /\ stats' = u.stats
         /\ thrown' = u.thrown
         /\ last' = FaultyCall(Call("archiveStats", 0, TRUE, 0, 0), "direct", fault)
    /\ UNCHANGED <<recipe, error, given, activity, result, checked, executed, outcomes>>
    /\ UNCHANGED <<failStreak, submitted, probe, cascadeVars>>
    /\ UNCHANGED flightVars

\* recipeStats.deleteStats while the persistence layer may fail.
DeleteStatsFaulty ==
    /\ \E fault \in Faults \ {"read"} :
         \E u \in {deleteStatsTry(stats, fault)} :
         /\ stats' = u.stats
         /\ thrown' = u.thrown
         /\ last' = FaultyCall(Call("deleteStats", 0, TRUE, 0, 0), "direct", fault)
         /\ failStreak' = IF fault = "write" THEN failStreak ELSE 0
    /\ UNCHANGED <<recipe, error, given, activity, result, checked, executed, outcomes>>
    /\ UNCHANGED <<submitted, probe, cascadeVars>>
    /\ UNCHANGED flightVars

\* The stored recipe is evaluated and its stats are updated, archived and
\* deleted while reads and writes of the persistence layer may fail.
NextFaulty == EvaluateFaulty \/ UpdateStatsFaulty \/ ArchiveStatsFaulty \/ DeleteStatsFaulty
SpecFaulty == InitFaulty /\ [][NextFaulty]_vars

----------------------------------------------------------------------------
(* Properties of evaluate (Spec)                                           *)

\* The last evaluate ran on an enabled recipe without defaultFor.
EvaluatedConditions == result # "none" /\ ~recipe.disabled /\ recipe.defaultFor = ""

\* The properties named by the conditions of a recipe.
propertiesOf(r) == {r.conditions[i].property : i \in DOMAIN r.conditions}

\* A property group is true under samePropertyOp: under OR some condition of
\* the property holds for the activity, under AND all of them do.
groupHolds(act, r, property) ==
    LET own == {i \in DOMAIN r.conditions : r.conditions[i].property = property}
    IN  IF r.samePropertyOp = "OR"
        THEN \E i \in own : checkCondition(act, r.conditions[i])
        ELSE \A i \in own : checkCondition(act, r.conditions[i])

\* C1: for an enabled, non-default recipe with op = AND, evaluate returns
\* true if and only if every property group is true under samePropertyOp.
C1_AndEveryGroup ==
    (EvaluatedConditions /\ recipe.op = "AND")
        => (/\ result \in {"true", "false"}
            /\ result = "true" <=> \A p \in propertiesOf(recipe) : groupHolds(given, recipe, p))

\* An AND recipe with two property groups matched although one of its
\* conditions fails: the distance group is true under OR.
C1_Witness ==
    /\ EvaluatedConditions /\ recipe.op = "AND" /\ recipe.samePropertyOp = "OR"
    /\ result = "true"
    /\ Cardinality(propertiesOf(recipe)) = 2
    /\ \E i \in DOMAIN recipe.conditions : ~checkCondition(given, recipe.conditions[i])

\* C2: for an enabled, non-default recipe with op = OR, evaluate returns a
\* boolean, and it returns true if and only if at least one property group is
\* true under samePropertyOp.
C2_OrSomeGroup ==
    (EvaluatedConditions /\ recipe.op = "OR")
        => (/\ result \in {"true", "false"}
            /\ result = "true" <=> \E p \in propertiesOf(recipe) : groupHolds(given, recipe, p))

TextActions ==
    {"name", "prependName", "appendName", "generateName",
     "description", "prependDescription", "appendDescription"}

MutatingActions ==
    {"commute", "hideHome", "hideStatPace", "hideStatSpeed", "hideStatCalories",
     "hideStatHeartRate", "hideStatPower", "gear", "sportType", "workoutType", "mapStyle"}

\* C3: for a matched recipe the webhook action is executed after every other
\* action of the recipe.
C3_WebhookLast ==
    result = "true"
        => \A i, j \in DOMAIN executed :
              (executed[i] = "webhook" /\ executed[j] # "webhook") => j < i

\* C4: for a matched recipe every flag, gear, sportType, workoutType and
\* mapStyle action is executed before any templated text action.
C4_MutationsBeforeText ==
    result = "true"
        => \A i, j \in DOMAIN executed :
              (executed[i] \in TextActions /\ executed[j] \in MutatingActions) => j < i

\* How often x occurs in a list.
count(list, x) == Cardinality({i \in DOMAIN list : list[i] = x})

\* C5: for a matched recipe every action is executed exactly once, also after
\* an action that returned false, and the success value handed to updateStats
\* is the conjunction of the outcomes of all actions.
C5_EveryActionOnce ==
    result = "true"
        => /\ Len(executed) = Len(recipe.actions)
           /\ \A t \in RecipeActionType :
                 count(executed, t) = count([i \in DOMAIN recipe.actions |-> recipe.actions[i].type], t)
           /\ last.op = "updateStats"
           /\ last.success = (\A i \in DOMAIN outcomes : outcomes[i])

\* The lists that hold the entries of a list in another order.
reorderings(list) ==
    {[i \in DOMAIN list |-> list[f[i]]] : f \in Permutations(DOMAIN list)}

\* What evaluate returns for a recipe and an activity.
returns(act, r) == IF r.disabled THEN "false" ELSE matches(act, setDefaultOps(r)).match

\* C10: recipes that differ only in the order of their conditions give the
\* same evaluate result for every activity; conditions of one property are
\* combined with samePropertyOp wherever they stand in the list, and the
\* properties are combined with op.
C10_ConditionOrder ==
    EvaluatedConditions
        => /\ \A c \in reorderings(recipe.conditions) :
                 returns(given, [recipe EXCEPT !.conditions = c]) = result
           /\ recipe.conditions # <<>>
                 => (result = "true" <=>
                        IF recipe.op = "OR"
                        THEN \E p \in propertiesOf(recipe) : groupHolds(given, recipe, p)
                        ELSE \A p \in propertiesOf(recipe) : groupHolds(given, recipe, p))

\* A recipe whose two distance conditions are separated by the sport type
\* condition matched through its distance group although one of the two fails.
C10_Witness ==
    /\ EvaluatedConditions /\ result = "true"
    /\ Len(recipe.conditions) = 3
    /\ recipe.conditions[1].property = "distance"
    /\ recipe.conditions[2].property = "sportType"
    /\ recipe.conditions[3].property = "distance"
    /\ recipe.op = "AND" /\ recipe.samePropertyOp = "OR"
    /\ ~checkCondition(given, recipe.conditions[3])

----------------------------------------------------------------------------
(* Properties of validate (SpecValidate)                                   *)

\* C9: when validate returns for a recipe without defaultFor, the recipe has
\* at least one condition and at least one action.
C9_NonEmptyLists ==
    (error = "none" /\ recipe.defaultFor = "")
        => (Len(recipe.conditions) >= 1 /\ Len(recipe.actions) >= 1)

----------------------------------------------------------------------------
(* Properties of RecipeStats (SpecStats)                                   *)

\* C6: the stored activities list never holds more than maxActivityIds ids,
\* and an append beyond the cap removes the head of the list and keeps the
\* order of the other ids.
C6_ActivitiesCapped ==
    [][/\ Len(stats'.activities) <= maxActivityIds
       /\ (last'.op = "updateStats" /\ stats.exists /\ ~includes(stats.activities, last'.activityId))
             => stats'.activities =
                   IF Len(stats.activities) + 1 > maxActivityIds
                   THEN Append(Tail(stats.activities), last'.activityId)
                   ELSE Append(stats.activities, last'.activityId)]_vars

\* A trigger removed the oldest id of a full list.
C6_Witness ==
    /\ last.op = "updateStats" /\ last.removed # 0
    /\ Len(stats.activities) = maxActivityIds
    /\ ~includes(stats.activities, last.removed)

\* C7: an updateStats call on an existing record leaves activityCount and
\* counter greater than or equal to what they were.
C7_CountersMonotonic ==
    [][(last'.op = "updateStats" /\ stats.exists)
          => /\ num(stats'.activityCount) >= num(stats.activityCount)
             /\ num(stats'.counter) >= num(stats.counter)]_vars

\* A trigger on a record whose counter had been set to 2.
C7_Witness ==
    /\ last.op = "updateStats" /\ stats.counter = <<3>>
    /\ num(stats.activityCount) >= 2

\* C8: after updateStats with success the stored recentFailures is 0, after
\* updateStats without success it is its previous value plus 1 (0 when
\* absent); so it equals the number of failed triggers since the last
\* successful one.
C8_RecentFailures ==
    /\ [][last'.op = "updateStats"
            => stats'.recentFailures =
                  <<IF last'.success THEN 0 ELSE num(stats.recentFailures) + 1>>]_vars
    /\ [](num(stats.recentFailures) = failStreak)

\* Two failed triggers in a row.
C8_Witness ==
    /\ last.op = "updateStats" /\ ~last.success
    /\ stats.recentFailures = <<2>>

----------------------------------------------------------------------------
(* Default recipes (Spec)                                                  *)

\* The last evaluate ran on an enabled recipe with defaultFor set.
EvaluatedDefault == result # "none" /\ ~recipe.disabled /\ recipe.defaultFor # ""

\* C11: for an enabled recipe with defaultFor set, evaluate matches (runs the
\* actions, records the trigger and returns true) exactly when the sport
\* type of the activity equals defaultFor, and it hands no condition to
\* checkCondition, whatever the conditions list contains.
C11_DefaultFor ==
    EvaluatedDefault
        => /\ result = (IF given.sportType = recipe.defaultFor THEN "true" ELSE "false")
           /\ checked = <<>>
           /\ result = "true"
                 => /\ Len(executed) >= 1
                    /\ last.op = "updateStats"
           /\ result = "false"
                 => /\ executed = <<>>
                    /\ activity = given
           /\ \A c \in SeqUpTo(EvalConditions, MaxConds) :
                 LET m == matches(given, [recipe EXCEPT !.conditions = c])
                 IN  m.match = result /\ m.checked = <<>>

\* A recipe submitted with a condition and defaultFor "Run" matched a run.
C11_Witness ==
    /\ EvaluatedDefault
    /\ submitted.conditions # <<>>
    /\ given.sportType = recipe.defaultFor
    /\ result = "true"
    /\ executed = <<"commute">>

----------------------------------------------------------------------------
(* Conditions that cannot be evaluated (Spec)                              *)

\* A condition on the same property that every activity fails without a throw.
failing(condition) ==
    IF condition.property = "sportType"
    THEN [condition EXCEPT !.operator = "=", !.value = StrV("None")]
    ELSE [condition EXCEPT !.operator = "<", !.value = NumV(0)]

\* C12: a condition whose predicate throws is a non-match for that condition
\* only: checkCondition returns false for it, evaluate does not throw, and
\* the result of evaluate is the one it gives when a condition that simply
\* fails stands in its place.
C12_ThrowIsNonMatch ==
    EvaluatedConditions
        => \A i \in DOMAIN recipe.conditions :
              predicate(given, recipe.conditions[i]) = "throw"
                 => /\ ~checkCondition(given, recipe.conditions[i])
                    /\ result \in {"true", "false"}
                    /\ predicate(given, failing(recipe.conditions[i])) = "false"
                    /\ result = returns(given, [recipe EXCEPT
                                     !.conditions[i] = failing(recipe.conditions[i])])

\* An OR recipe matched through its sport type condition although the
\* predicate of its distance condition threw, and the throwing condition was
\* handed to checkCondition.
C12_Witness ==
    /\ EvaluatedConditions
    /\ result = "true"
    /\ \E i \in DOMAIN checked : predicate(given, checked[i]) = "throw"

----------------------------------------------------------------------------
(* Properties of validate (SpecValidate)                                   *)

\* The operators the catalog lists for a property.
legalOperators(property) == UNION {p.operators : p \in propSpecs(property)}

\* C13: validate rejects a condition whose operator is not among the
\* operators the catalog lists for the condition's property, also when the
\* operator belongs to RecipeOperator: every condition of a recipe that
\* validate accepted has an operator that is legal for its property.
C13_OperatorLegal ==
    (error = "none" /\ recipe.defaultFor = "")
        => \A i \in DOMAIN recipe.conditions :
              recipe.conditions[i].operator \in legalOperators(recipe.conditions[i].property)

\* C14: validate never rejects a recipe because of unknown top-level fields.
\* Its outcome is the outcome for the same recipe without them; on success
\* the recipe has no unknown field left and its known fields are what they
\* were, up to the normalisation validate applies to every recipe (empty
\* entries filtered, order and conditions reset for a default recipe).
C14_UnknownFields ==
    error # "pending"
        => LET clean == validate([submitted EXCEPT !.unknownFields = {}])
           IN  /\ error = clean.error
               /\ error = "none"
                     => /\ recipe.unknownFields = {}
                        /\ recipe = clean.recipe
                        /\ recipe.title = submitted.title
                        /\ recipe.op = submitted.op
                        /\ recipe.samePropertyOp = submitted.samePropertyOp
                        /\ recipe.defaultFor = submitted.defaultFor
                        /\ recipe.killSwitch = submitted.killSwitch
                        /\ recipe.disabled = submitted.disabled
                        /\ recipe.actions = filterEmpty(submitted.actions)
                        /\ recipe.defaultFor = ""
                              => /\ recipe.order = submitted.order
                                 /\ recipe.conditions = filterEmpty(submitted.conditions)

\* A recipe handed over with an unknown field was accepted without it.
C14_Witness ==
    /\ error = "none"
    /\ submitted.unknownFields # {}
    /\ recipe.unknownFields = {}
    /\ recipe.conditions # <<>>

\* The recipe handed to validate is a default recipe whose title, order and
\* actions pass their checks (the order of a RecipeData is unset or a number).
DefaultSubmitted ==
    /\ error # "pending"
    /\ submitted.defaultFor # ""
    /\ submitted.title \in 1..maxLengthTitle
    /\ ~submitted.orderNaN
    /\ submitted.actionsIsArray
    /\ firstActionError(filterEmpty(submitted.actions)) = "none"

----------------------------------------------------------------------------
(* Properties of archiveStats (SpecStats)                                  *)

----------------------------------------------------------------------------
(* Persistence failures (SpecFaulty)                                       *)

\* The fields processAction changed in the last evaluate are set on the activity.
MutationsKept ==
    \A i \in DOMAIN executed :
       outcomes[i] => /\ includes(activity.updatedFields, executed[i])
                      /\ executed[i] = "commute" => activity.commute
                      /\ executed[i] = "sportType" => activity.sportType = "Run"

\* C16: if the persistence layer fails during updateStats, archiveStats or
\* deleteStats, the call completes without throwing and the stored document
\* is left as it was; evaluate of a matching recipe still returns true, and
\* the changes its actions made to the activity are kept.
C16_FailureSwallowed ==
    /\ [](~thrown)
    /\ [](last.caller = "evaluate"
             => /\ result = returns(given, recipe)
                /\ result = "true" => (executed # <<>> /\ MutationsKept))
    /\ [][(last'.fault # "none" /\ last'.op # "none") => stats' = stats]_vars

\* A matching evaluate whose stats write failed returned true with the
\* activity changed by both actions, and no stats document was stored.
C16_Witness ==
    /\ last.caller = "evaluate"
    /\ last.fault = "write"
    /\ result = "true"
    /\ activity.commute
    /\ activity.sportType = "Run"
    /\ given.sportType = "Ride"
    /\ ~stats.exists

----------------------------------------------------------------------------
(* The user-deletion cascade (SpecCascade)                                 *)

\* The stats documents of a user.
statsOf(docs, userId) == {d \in docs : d[1] = userId}

----------------------------------------------------------------------------
(* Properties of getStats (SpecStats)                                      *)

\* C19: the activityCount reported by getStats is the stored trigger count
\* whenever one is stored and the length of activities only when none is,
\* both in getStats(user, recipe) and in the entry of getStats(user), so
\* that the two forms report the same activityCount for a document.
C19_ActivityCountReported ==
    stats.exists
        => /\ getStats(stats).activityCount
                 = (IF stats.activityCount = <<>> THEN <<Len(stats.activities)>>
                    ELSE stats.activityCount)
           /\ getStatsEntry(stats).activityCount = getStats(stats).activityCount

----------------------------------------------------------------------------
(* The predicates of the earlier class (SpecConditions)                    *)

\* |a - b| < radius on model numbers, false when b is NaN.
within(a, b, radius) == b # <<>> /\ a - b[1] < radius /\ b[1] - a < radius

\* C20: a location condition matches iff the latitude of the activity
\* (index 0 of its coordinate pair) lies strictly within the radius of the
\* condition's latitude and its longitude (index 1) lies strictly within
\* the radius of the condition's longitude, the radius being 0.00037 for
\* Equal and 0.00458 for Like; under any other operator it does not match.
C20_LocationBothAxes ==
    (probe.verdict # "none" /\ probe.condition.property = "location_start")
        => LET location == probe.activity[probe.condition.property]
               cLat == parseField(probe.condition.value, 1)
               cLong == parseField(probe.condition.value, 2)
               op == probe.condition.operator
           IN  conditionHolds(probe.verdict)
                  <=> \/ op = "=" /\ within(location[1], cLat, radiusEqual)
                                  /\ within(location[2], cLong, radiusEqual)
                      \/ op = "like" /\ within(location[1], cLat, radiusLike)
                                     /\ within(location[2], cLong, radiusLike)

\* C21: a time-of-day condition with value v against an activity whose time
\* reduces to the integer a matches, for GreaterThan iff a > v, for LessThan
\* iff a < v, for Like iff |a - v| <= 20, for Equal iff |a - v| <= 1; under
\* any other operator it does not match.
C21_TimeOfDay ==
    (probe.verdict # "none" /\ probe.condition.property = "start_date")
        => LET a == formatHmm(probe.activity.start_date)[1]
               v == parseField(probe.condition.value, 1)
               op == probe.condition.operator
           IN  conditionHolds(probe.verdict)
                  <=> /\ v # <<>>
                      /\ \/ op = ">" /\ a > v[1]
                         \/ op = "<" /\ a < v[1]
                         \/ op = "like" /\ a - v[1] <= toleranceLike /\ v[1] - a <= toleranceLike
                         \/ op = "=" /\ a - v[1] <= toleranceEqual /\ v[1] - a <= toleranceEqual

\* The comparison a numeric or text condition stands for.
comparisonHolds(act, condition) ==
    IF condition.property = "distance"
    THEN \/ condition.operator = "=" /\ act.distance = condition.value[1]
         \/ condition.operator = ">" /\ act.distance > condition.value[1]
         \/ condition.operator = "<" /\ act.distance < condition.value[1]
    ELSE \/ condition.operator = "="
               /\ toLowerCase(act.sportType) = toLowerCase(condition.value)
         \/ condition.operator = "like"
               /\ indexOf(toLowerCase(act.sportType), toLowerCase(condition.value)) >= 0

\* C22: a numeric condition matches iff the strict comparison of its
\* operator holds between the activity's value and the condition's value,
\* and a recipe whose numeric and text conditions all hold for the activity
\* makes evaluate return true and apply its actions.
C22_NumericMatch ==
    /\ (probe.verdict # "none" /\ probe.condition.property = "distance")
          => (conditionHolds(probe.verdict) <=> comparisonHolds(probe.activity, probe.condition))
    /\ (~probe.called /\ result # "none"
           /\ \A i \in DOMAIN recipe.conditions : comparisonHolds(given, recipe.conditions[i]))
          => /\ result = "true"
             /\ activity.commute

(***************************************************************************)
(* Overlapping updateStats calls on one (user, recipe) pair                *)

\* updateStats up to the end of 'await doc.get()': the call holds a snapshot
\* of the stored document.
ReadStats(c) ==
    /\ calls[c].pc = "idle"
    /\ \E id \in ActivityIds, success \in BOOLEAN :
         calls' = [calls EXCEPT ![c] = [pc |-> "read", read |-> stats,
                                        activityId |-> id, success |-> success]]
    /\ UNCHANGED <<recipeVars, probe, cascadeVars, triggers, writing>>

\* updateStats from the snapshot to the end of 'await database.merge(...)':
\* every field of the document it computed from its snapshot is written.
MergeStats(c) ==
    /\ calls[c].pc = "read"
    /\ stats' = updateStats(calls[c].read, calls[c].activityId, calls[c].success)
    /\ last' = Call("updateStats", calls[c].activityId, calls[c].success, 0,
                    removedId(calls[c].read, calls[c].activityId))
    /\ calls' = [calls EXCEPT ![c] = [pc |-> "done", read |-> NoStats,
                                      activityId |-> 0, success |-> TRUE]]
    /\ triggers' = triggers + 1
    /\ UNCHANGED <<recipe, error, given, activity, result, checked, executed, outcomes>>
    /\ UNCHANGED <<failStreak, submitted, thrown, probe, cascadeVars, writing>>

\* Calls of updateStats that overlap in every way the scheduler allows.
NextRace == \E c \in CallIds : ReadStats(c) \/ MergeStats(c)
SpecRace == InitStats /\ [][NextRace]_vars

\* C23: when updateStats calls for the same (user, recipe) overlap, the
\* stored activityCount and counter never decrease from one write to the
\* next, under every interleaving of the reads and the writes.
C23_WritesNeverDecrease ==
    [][/\ num(stats'.activityCount) >= num(stats.activityCount)
       /\ num(stats'.counter) >= num(stats.counter)]_vars

\* C24: starting from no stats record, after any sequence of updateStats and
\* setCounter calls the stored activityCount equals the number of updateStats
\* calls made, wherever the setCounter calls fall in the sequence.
C24_CountEqualsTriggers == num(stats.activityCount) = triggers

\* C25: evaluate calls updateStats exactly once when the recipe matches and
\* never when it does not; it returns true iff the recipe matched, whether
\* or not the actions succeeded; when the recipe does not match, no action
\* is executed and the activity is left unchanged.
C25_StatsOnceOnMatch ==
    [][error = "none" =>
         \A matched \in {~recipe.disabled
                            /\ matches(given', setDefaultOps(recipe)).match = "true"} :
         LET success == \A i \in DOMAIN outcomes' : outcomes'[i]
         IN  /\ (result' = "true") <=> matched
             /\ matched => /\ stats' = updateStats(stats, given'.id, success)
                           /\ triggers' = triggers + 1
                           /\ last'.op = "updateStats"
             /\ ~matched => /\ stats' = stats
                            /\ triggers' = triggers
                            /\ executed' = <<>>
                            /\ activity' = given']_vars

\* A recipe matched, one of its actions failed, evaluate returned true and
\* the one trigger is in the stats.
C25_Witness ==
    /\ result = "true"
    /\ \E i \in DOMAIN outcomes : ~outcomes[i]
    /\ triggers = 1
    /\ stats.activityCount = <<1>>
    /\ stats.recentFailures = <<1>>

\* The conditions the specification lets evaluate check, in the order it
\* lets it check them: group after group in the order of the groups' first
\* conditions, inside a group in list order, nothing of a group after its
\* first condition that fails (AND) or succeeds (OR), and no group after the
\* first false group (AND) or true group (OR).
checkedInOrder(act, r) ==
    LET c == r.conditions
        first(i) == CHOOSE j \in DOMAIN c :
                        /\ c[j].property = c[i].property
                        /\ \A k \in DOMAIN c : c[k].property = c[i].property => j <= k
        stops(i) == checkCondition(act, c[i]) <=> r.samePropertyOp = "OR"
        groupStops(i) == groupHolds(act, r, c[i].property) <=> r.op = "OR"
        reached(i) == /\ \A j \in DOMAIN c : first(j) < first(i) => ~groupStops(j)
                      /\ \A j \in DOMAIN c : (first(j) = first(i) /\ j < i) => ~stops(j)
        S == {i \in DOMAIN c : reached(i)}
        before(j, i) == first(j) < first(i) \/ (first(j) = first(i) /\ j < i)
        rank(i) == Cardinality({j \in S : before(j, i)}) + 1
    IN  [k \in 1..Cardinality(S) |-> c[CHOOSE i \in S : rank(i) = k]]

\* C26: the conditions of a property group are checked one at a time in
\* list order, each at most once; under samePropertyOp = AND none is checked
\* after the first that fails, under OR none after the first that succeeds;
\* under op = AND no group is evaluated after the first false group, under
\* op = OR none after the first true group.
C26_ShortCircuit ==
    EvaluatedConditions => checked = checkedInOrder(given, recipe)

\* Under op = AND and samePropertyOp = OR the first distance condition
\* succeeded, the second one was skipped, and the sport type group was
\* checked after it.
C26_Witness ==
    /\ EvaluatedConditions
    /\ recipe.op = "AND" /\ recipe.samePropertyOp = "OR"
    /\ Len(recipe.conditions) = 3
    /\ recipe.conditions[1].property = "distance"
    /\ recipe.conditions[2].property = "distance"
    /\ recipe.conditions[3].property = "sportType"
    /\ checked = <<recipe.conditions[1], recipe.conditions[3]>>

\* C27: evaluate does not modify the recipe definition: when it returns,
\* match or no match, every field of user.recipes[id], op and samePropertyOp
\* included, has the value it had before the call.
C27_RecipeUnchanged == [][error = "none" => recipe' = recipe]_vars

\* C30: for a recipe with disabled set, evaluate returns false without
\* evaluating any condition, executing any action, changing the activity or
\* writing any stats, whatever the conditions and the activity are.
C30_DisabledSkipped ==
    [][(error = "none" /\ recipe.disabled)
          => /\ result' = "false"
             /\ checked' = <<>>
             /\ executed' = <<>>
             /\ activity' = given'
             /\ stats' = stats
             /\ triggers' = triggers
             /\ last' = NoCall]_vars

\* A disabled recipe whose conditions all hold for the activity, or that is
\* the default for the activity's sport, was evaluated: evaluate returned
\* false and there is no stats document.
C30_Witness ==
    /\ recipe.disabled
    /\ result = "false"
    /\ IF recipe.defaultFor = ""
       THEN /\ recipe.conditions # <<>>
            /\ \A i \in DOMAIN recipe.conditions : checkCondition(given, recipe.conditions[i])
       ELSE given.sportType = recipe.defaultFor
    /\ ~stats.exists

\* C29: setCounter(user, recipe, n) on an existing stats record sets counter
\* to n and leaves activities, activityCount, recentFailures, dateLastTrigger
\* and archived unchanged; afterwards each trigger raises counter by exactly
\* 1 from n, for every integer n, 0 included.
C29_SetCounterFrame ==
    [][/\ (last'.op = "setCounter" /\ stats.exists)
             => stats' = [stats EXCEPT !.counter = <<last'.counter>>]
       /\ (last'.op = "updateStats" /\ stats.exists /\ stats.counter # <<>>)
             => stats'.counter = <<stats.counter[1] + 1>>]_vars

\* After a first trigger the counter was set to 0, and the second trigger
\* raised it to 1 while activityCount went on to 2.
C29_Witness ==
    /\ last.op = "updateStats"
    /\ triggers = 2
    /\ stats.activityCount = <<2>>
    /\ stats.counter = <<1>>

(***************************************************************************)
(* Evaluations that overlap the deletion of their user                     *)

\* database.merge("recipe-stats", stats, doc): a merge-style upsert, the
\* document is stored whether or not one was there.
merge(docs, doc) == docs \cup {doc}

\* evaluate matched a recipe of an existing user and called updateStats,
\* which is waiting for the document it asked for.
BeginUpdate ==
    /\ \E u \in userDocs, r \in RecipeIds :
         /\ <<u, r>> \notin writing
         /\ writing' = writing \cup {<<u, r>>}
    /\ UNCHANGED <<recipeVars, probe, cascadeVars, triggers, calls>>

\* updateStats merges its document and returns.
FinishUpdate ==
    /\ \E w \in writing :
         /\ collection' = merge(collection, w)
         /\ writing' = writing \ {w}
    /\ UNCHANGED <<recipeVars, probe, userDocs, subscribed, pending, deleted, triggers, calls>>

\* Users are deleted while evaluations of their recipes are under way.
NextOverlap == RecipesInit \/ BeginUpdate \/ FinishUpdate \/ UsersDelete \/ HandleUserDelete
SpecOverlap == InitCascade /\ [][NextOverlap]_vars

\* C28: after a user deletion and its cascade have completed and every
\* updateStats call that was in flight has finished, no recipe-stats
\* document with that user's id exists.
C28_NoStatsAfterDelete ==
    \A u \in Users :
        (deleted[u] = "ok" /\ u \notin pending /\ statsOf(writing, u) = {})
            => statsOf(collection, u) = {}

====
